---- MODULE Spec2Model ----
(***************************************************************************)
(* Grant Aerona3 integration: the poll cycle of GrantAerona3Coordinator,   *)
(* the register/coil write path and the refresh requests they trigger.     *)
(*                                                                         *)
(* One asyncio event loop runs the coroutines; every transport operation   *)
(* (connect, read, write, close) is a job handed to the executor and       *)
(* awaited under asyncio.wait_for.  A job that is still running when its   *)
(* wait_for expires cannot be cancelled: it keeps running in its thread    *)
(* (field "busy" of the client that owns it).                              *)
(*                                                                         *)
(* Units: register values are raw words as the coordinator stores them.    *)
(***************************************************************************)
EXTENDS Integers, Sequences, FiniteSets, TLC

VARIABLES
    catalogue,            \* the register maps of const.py the run is set up with
    data,                 \* coordinator.data: the published snapshot
    last_update_success,  \* coordinator.last_update_success
    dev,                  \* the heat pump's register memory
    cyc,                  \* the poll cycles in flight (_fetch_data frames)
    wr,                   \* the write calls in flight
    timerArmed,           \* the update_interval timer is scheduled
    debLock,              \* the refresh debouncer's execute lock is held
    debTimer,             \* the refresh debouncer's cooldown timer runs
    debPending,           \* the debouncer will call again at timer end
    stray,                \* clients no frame refers to any more
    flow_rate_lpm,        \* coordinator.flow_rate_lpm, in tenths of a litre/minute
    wc,                   \* the WeatherCompensationController's fields
    now,                  \* datetime.now(), in seconds
    evaluated             \* the last evaluation of a value function: input and result

vars == <<catalogue, data, last_update_success, dev, cyc, wr,
          timerArmed, debLock, debTimer, debPending, stray,
          flow_rate_lpm, wc, now, evaluated>>

----------------------------------------------------------------------------
(* Bounds of the model                                                     *)

MaxInFlight == 2  \* coroutines (poll cycles and write calls) in flight at once

\* the frames of _fetch_data and of the write calls the model keeps
Cycles == {1, 2}
Writers == {1}

----------------------------------------------------------------------------
(* Register catalogue (const.py).  A run is set up with a part of the      *)
(* maps: the keys of INPUT_REGISTER_MAP, HOLDING_REGISTER_MAP and          *)
(* COIL_REGISTER_MAP it uses are the fields of the variable catalogue.     *)

\* two critical inputs, one other input, one holding register, two coils
PollCatalogue == [input |-> {0, 2, 9}, holding |-> {2}, coil |-> {1, 2}]

\* one critical input, one holding register, one coil
SmallCatalogue == [input |-> {0}, holding |-> {2}, coil |-> {1}]

INPUT_REGISTER_MAP == catalogue.input
HOLDING_REGISTER_MAP == catalogue.holding
COIL_REGISTER_MAP == catalogue.coil

critical_registers == <<0, 1, 3, 6, 9>>
critical_coils == <<2, 6, 7, 18>>

\* min / max of holding register 2 in raw units (23.0 and 60.0 at scale 0.1)
HoldingMinRaw(a) == 230
HoldingMaxRaw(a) == 600

\* the calls made on the write interface: address and raw value
WriteRegisterCalls == {<<2, 601>>, <<1, 300>>}
WriteCoilCalls == {<<1, TRUE>>, <<33, TRUE>>}

\* values handed to the number entity, in tenths; scale 0.1 is one tenth
NumberValues == {300, 601}
HoldingScale(a) == 1

\* what the device holds when the integration starts
DeviceMemory(cat) ==
    [input |-> [a \in cat.input |-> IF a = 2 THEN 65535 ELSE 30 + a],
     holding |-> [a \in cat.holding |-> 250],
     coil |-> [a \in cat.coil |-> FALSE]]

----------------------------------------------------------------------------
(* Helpers                                                                 *)

None == [none |-> TRUE]

Range(s) == {s[i] : i \in DOMAIN s}

RECURSIVE SortedSeq(_)
SortedSeq(S) ==
    IF S = {} THEN <<>>
    ELSE LET m == CHOOSE x \in S : \A y \in S : x <= y
         IN <<m>> \o SortedSeq(S \ {m})

SelectIn(s, S) == SelectSeq(s, LAMBDA x : x \in S)

\* a decoding that would keep the word as read
DecodeUnsigned(raw_value) == raw_value

\* coordinator.py 135-136, 156-157, 188-189
Decode(raw_value) == IF raw_value > 32767 THEN raw_value - 65536 ELSE raw_value

----------------------------------------------------------------------------
(* The reads of one poll cycle, in the order _fetch_data performs them     *)

\* coordinator.py 121-124: the critical registers that are in the map
CriticalInputs == SelectIn(critical_registers, INPUT_REGISTER_MAP)

\* coordinator.py 145: the registers of the map that are not critical
RemainingInputs == SortedSeq(INPUT_REGISTER_MAP \ Range(critical_registers))

\* coordinator.py 169: every holding register of the map is writable
WritableHolding == SortedSeq(HOLDING_REGISTER_MAP)

\* coordinator.py 208-211: the critical coils that are in the map
CriticalCoils == SelectIn(critical_coils, COIL_REGISTER_MAP)

Entry(phase, space, a) == [phase |-> phase, space |-> space, addr |-> a]

ReadPlan ==
    [i \in 1..Len(CriticalInputs) |-> Entry("critical", "input", CriticalInputs[i])]
    \o [i \in 1..Len(RemainingInputs) |-> Entry("rest", "input", RemainingInputs[i])]
    \o [i \in 1..Len(WritableHolding) |-> Entry("holding", "holding", WritableHolding[i])]
    \o [i \in 1..Len(CriticalCoils) |-> Entry("coil", "coil", CriticalCoils[i])]

PlanEnd == Len(ReadPlan) + 1

\* a cycle that would read the remaining inputs whatever the critical reads gave
SkipNever(i, input_data) == i

\* coordinator.py 144: the remaining inputs are read only "if input_data"
RECURSIVE SkipFrom(_, _)
SkipFrom(i, input_data) ==
    IF i < PlanEnd /\ ReadPlan[i].phase = "rest" /\ DOMAIN input_data = {}
    THEN SkipFrom(i + 1, input_data)
    ELSE i

\* the reads a cycle has attempted once it stands at index i
Attempted(c) ==
    {<<ReadPlan[j].space, ReadPlan[j].addr>> :
        j \in {k \in 1..(cyc[c].i - 1) :
                  ~(ReadPlan[k].phase = "rest" /\ DOMAIN cyc[c].input = {})}}

Stored(c) ==
    {<<"input", a>> : a \in DOMAIN cyc[c].input}
    \cup {<<"holding", a>> : a \in DOMAIN cyc[c].holding}
    \cup {<<"coil", a>> : a \in DOMAIN cyc[c].coil}

\* the reads of the cycle that errored or timed out
FailedReads(c) == Attempted(c) \ Stored(c)

----------------------------------------------------------------------------
(* Derived values (coordinator.py 228-250).  Units of the result:          *)
(* cop in hundredths, heat_output_w in tenths of a watt, delta_t in        *)
(* hundredths of a degree; the flow rate is in tenths of a litre/minute.   *)

\* entry.data.get("flow_rate_lpm", 34.0), in tenths
DefaultFlowRate == 340

\* round(): the nearest integer to n / d (d > 0), ties to the even one
RoundDiv(n, d) ==
    LET q == n \div d
        r == n % d
    IN IF 2 * r < d THEN q
       ELSE IF 2 * r > d THEN q + 1
       ELSE IF q % 2 = 0 THEN q ELSE q + 1

Get(m, k, default) == IF k \in DOMAIN m THEN m[k] ELSE default

\* the calculation without the power condition: a cop of 0 when there is no power
CalculateWithoutPowerGuard(input_data, rate) ==
    LET power_w == Get(input_data, 3, 0) * 100
        flow_rate_lph == rate * 6
    IN IF /\ 9 \in DOMAIN input_data
          /\ 0 \in DOMAIN input_data
          /\ flow_rate_lph > 0
       THEN LET delta_t == input_data[9] - input_data[0]
                heat116 == flow_rate_lph * 116 * delta_t
            IN [k \in {"cop", "heat_output_w", "delta_t"} |->
                   CASE k = "cop" -> IF power_w > 0 THEN RoundDiv(heat116, power_w) ELSE 0
                     [] k = "heat_output_w" -> RoundDiv(heat116, 10)
                     [] k = "delta_t" -> 100 * delta_t]
       ELSE <<>>

CalculateDerivedValues(input_data, rate) ==
    LET power_w == Get(input_data, 3, 0) * 100
        flow_rate_lph == rate * 6
    IN IF /\ 9 \in DOMAIN input_data
          /\ 0 \in DOMAIN input_data
          /\ power_w > 0
          /\ flow_rate_lph > 0
       THEN LET delta_t == input_data[9] - input_data[0]
                heat116 == flow_rate_lph * 116 * delta_t
            IN [k \in {"cop", "heat_output_w", "delta_t"} |->
                   CASE k = "cop" -> RoundDiv(heat116, power_w)
                     [] k = "heat_output_w" -> RoundDiv(heat116, 10)
                     [] k = "delta_t" -> 100 * delta_t]
       ELSE <<>>

\* the dictionary _fetch_data returns (coordinator.py 70-75, 94-99, 115)
Snapshot(c) ==
    [input_registers |-> cyc[c].input,
     holding_registers |-> cyc[c].holding,
     coil_registers |-> cyc[c].coil,
     calculated |-> cyc[c].calculated]

----------------------------------------------------------------------------
(* Initial state: the coordinator is constructed, nothing is polled yet    *)

IdleCycle ==
    [pc |-> "idle", i |-> 1, input |-> <<>>, holding |-> <<>>, coil |-> <<>>,
     calculated |-> <<>>, sock |-> FALSE, busy |-> {}, err |-> "none", trig |-> "none", waiter |-> 0]

IdleWriter ==
    [pc |-> "idle", space |-> "none", addr |-> 0, val |-> 0, origin |-> "none",
     sock |-> FALSE, busy |-> {}, ret |-> "none", calls |-> 0, attempts |-> 0,
     asked |-> FALSE, committed |-> FALSE]

\* weather compensation is not set up (weather_compensation.py 58-68)
NoController ==
    [secondary_curve |-> FALSE, boost_active |-> FALSE, active_curve |-> "primary",
     boost_end_time |-> {}, last_outdoor_temp |-> {}, last_flow_temp |-> {}]

\* the coordinator as __init__ leaves it (coordinator.py 31-59)
Constructed(cat) ==
    /\ catalogue = cat
    /\ data = None
    /\ last_update_success = TRUE
    /\ dev = DeviceMemory(catalogue)
    /\ cyc = [c \in Cycles |-> IdleCycle]
    /\ wr = [w \in Writers |-> IdleWriter]
    /\ timerArmed = TRUE
    /\ debLock = FALSE
    /\ debTimer = FALSE
    /\ debPending = FALSE
    /\ stray = [connecting |-> FALSE, open |-> FALSE]

Setup(cat) ==
    /\ Constructed(cat)
    /\ flow_rate_lpm = DefaultFlowRate
    /\ wc = NoController
    /\ now = 0
    /\ evaluated = None

Init == Setup(SmallCatalogue)

InitPoll == Setup(PollCatalogue)

----------------------------------------------------------------------------
(* Refresh scheduling.  GrantAerona3Coordinator inherits it from           *)
(* DataUpdateCoordinator (coordinator.py 28, 49-54): an interval timer     *)
(* that is cancelled when a refresh starts and armed again when it ends,   *)
(* and async_request_refresh, a debouncer (immediate, with a cooldown)     *)
(* around async_refresh.  Neither takes a lock against a refresh that is   *)
(* already running.                                                        *)

envVars == <<catalogue, flow_rate_lpm, wc, now, evaluated>>
coordVars == <<envVars, data, last_update_success>>
debVars == <<debLock, debTimer, debPending>>

\* the coroutines in flight
InFlightCount ==
    Cardinality({c \in Cycles : cyc[c].pc # "idle"})
    + Cardinality({w \in Writers : wr[w].pc \notin {"idle", "await2"}})

\* the lowest free _fetch_data frame
FreeSlot(c) ==
    /\ InFlightCount < MaxInFlight
    /\ cyc[c].pc = "idle"
    /\ \A d \in Cycles : d < c => cyc[d].pc # "idle"

\* _async_refresh up to the connect job of _fetch_data (coordinator.py 61-89)
StartRefresh(c, trig, waiter) ==
    /\ FreeSlot(c)
    /\ cyc' = [cyc EXCEPT ![c] = [IdleCycle EXCEPT !.pc = "connect",
                                                    !.trig = trig,
                                                    !.waiter = waiter]]
    /\ timerArmed' = FALSE
    /\ debTimer' = FALSE
    /\ debPending' = FALSE

\* async_request_refresh runs the refresh before it returns
RunsInline == ~debTimer /\ ~debLock

\* async_request_refresh (coordinator.py 281, 323; number.py 180)
RequestRefresh(waiter) ==
    IF debTimer
    THEN /\ debPending' = TRUE
         /\ UNCHANGED <<cyc, timerArmed, debLock, debTimer>>
    ELSE IF debLock
    THEN UNCHANGED <<cyc, timerArmed, debLock, debTimer, debPending>>
    ELSE /\ \E c \in Cycles : StartRefresh(c, "request", waiter)
         /\ debLock' = TRUE

\* the update_interval timer fires (coordinator.py 53)
TimerFire ==
    /\ timerArmed
    /\ \E c \in Cycles : StartRefresh(c, "timer", 0)
    /\ UNCHANGED <<coordVars, dev, wr, debLock, stray>>

\* the debouncer's cooldown ends
DebouncerTimerFinish ==
    /\ debTimer
    /\ IF debPending
       THEN /\ \E c \in Cycles : StartRefresh(c, "request", 0)
            /\ debLock' = TRUE
       ELSE /\ debTimer' = FALSE
            /\ UNCHANGED <<cyc, timerArmed, debLock, debPending>>
    /\ UNCHANGED <<coordVars, dev, wr, stray>>

\* an entity asks for a refresh (weather_compensation_entities.py 111, 115)
ExternalRequestRefresh ==
    /\ data # None
    /\ RequestRefresh(0)
    /\ UNCHANGED <<coordVars, dev, wr, stray>>

----------------------------------------------------------------------------
(* The poll cycle: _async_update_data / _fetch_data                        *)

InFlight(c) == cyc[c].pc # "idle"

\* the cycle holds a transport session: from its connect to its close
PollSession(c) == cyc[c].pc \in {"connect", "read", "close"}

Step(c, rec) == cyc' = [cyc EXCEPT ![c] = rec]

AfterReads(i) == IF i = PlanEnd THEN "close" ELSE "read"

\* coordinator.py 97-99: after the last read, with the flow rate of that moment
Calculated(i, input_data) ==
    IF i = PlanEnd THEN CalculateDerivedValues(input_data, flow_rate_lpm) ELSE <<>>

\* coordinator.py 86-90: connect returned True
ConnectOK(c) ==
    /\ cyc[c].pc = "connect"
    /\ Step(c, [cyc[c] EXCEPT !.sock = TRUE, !.pc = AfterReads(SkipFrom(1, <<>>)),
                               !.i = SkipFrom(1, <<>>),
                               !.calculated = Calculated(SkipFrom(1, <<>>), <<>>)])
    /\ UNCHANGED <<coordVars, dev, wr, timerArmed, debVars, stray>>

\* coordinator.py 90-91, 107-109: connect returned False or raised
ConnectFails(c) ==
    /\ cyc[c].pc = "connect"
    /\ Step(c, [cyc[c] EXCEPT !.pc = "close", !.err = "connect"])
    /\ UNCHANGED <<coordVars, dev, wr, timerArmed, debVars, stray>>

\* coordinator.py 86-89, 101-103: wait_for gave up; the job runs on
ConnectTimeout(c) ==
    /\ cyc[c].pc = "connect"
    /\ Step(c, [cyc[c] EXCEPT !.pc = "close", !.err = "connect_timeout",
                               !.busy = @ \cup {"connect"}])
    /\ UNCHANGED <<coordVars, dev, wr, timerArmed, debVars, stray>>

Store(c, e, raw) ==
    CASE e.space = "input" -> [cyc[c] EXCEPT !.input = (e.addr :> Decode(raw)) @@ @]
      [] e.space = "holding" -> [cyc[c] EXCEPT !.holding = (e.addr :> Decode(raw)) @@ @]
      [] e.space = "coil" -> [cyc[c] EXCEPT !.coil = (e.addr :> raw) @@ @]

Advance(c, rec) ==
    LET n == SkipFrom(cyc[c].i + 1, rec.input)
    IN Step(c, [rec EXCEPT !.i = n, !.pc = AfterReads(n),
                           !.calculated = Calculated(n, rec.input)])

\* coordinator.py 132-137, 154-158, 186-190, 219-220
ReadOK(c) ==
    /\ cyc[c].pc = "read"
    /\ LET e == ReadPlan[cyc[c].i]
       IN Advance(c, Store(c, e, dev[e.space][e.addr]))
    /\ UNCHANGED <<coordVars, dev, wr, timerArmed, debVars, stray>>

\* coordinator.py 138-141, 159-161, 192-195, 221-224: error response or exception
ReadError(c) ==
    /\ cyc[c].pc = "read"
    /\ Advance(c, cyc[c])
    /\ UNCHANGED <<coordVars, dev, wr, timerArmed, debVars, stray>>

\* the read's wait_for gave up (3.0 s / 2.0 s); the job runs on
ReadTimeout(c) ==
    /\ cyc[c].pc = "read"
    /\ Advance(c, [cyc[c] EXCEPT !.busy = @ \cup {"read"}])
    /\ UNCHANGED <<coordVars, dev, wr, timerArmed, debVars, stray>>

\* coordinator.py 63-65: the 180 s wait_for cancels _fetch_data at its await
\* (the connect's own 30 s wait_for always ends before it)
CycleTimeout(c) ==
    /\ \/ /\ cyc[c].pc = "read"
          /\ Step(c, [cyc[c] EXCEPT !.pc = "close", !.err = "cycle_timeout",
                                     !.busy = @ \cup {"read"},
                                     !.input = <<>>, !.holding = <<>>, !.coil = <<>>])
       \/ /\ cyc[c].pc = "close"
          /\ cyc[c].err = "none"
          /\ Step(c, [cyc[c] EXCEPT !.pc = "end", !.err = "cycle_timeout",
                                     !.sock = FALSE, !.calculated = <<>>,
                                     !.input = <<>>, !.holding = <<>>, !.coil = <<>>])
    /\ UNCHANGED <<coordVars, dev, wr, timerArmed, debVars, stray>>

\* coordinator.py 110-114: finally, client.close
Close(c) ==
    /\ cyc[c].pc = "close"
    /\ Step(c, [cyc[c] EXCEPT !.pc = "end", !.sock = FALSE])
    /\ UNCHANGED <<coordVars, dev, wr, timerArmed, debVars, stray>>

\* a job that outlived its wait_for returns in its thread
OrphanDone(c) ==
    /\ InFlight(c)
    /\ \E k \in cyc[c].busy, opened \in BOOLEAN :
          Step(c, [cyc[c] EXCEPT !.busy = @ \ {k},
                                 !.sock = IF k = "connect" /\ opened THEN TRUE ELSE @])
    /\ UNCHANGED <<coordVars, dev, wr, timerArmed, debVars, stray>>

\* the client of a finished frame is dropped with whatever still runs on it
Dropped(sock, busy) ==
    [connecting |-> stray.connecting \/ "connect" \in busy,
     open |-> stray.open \/ sock]

\* the caller suspended in async_request_refresh resumes
Wake(w) ==
    IF w = 0 THEN wr
    ELSE [wr EXCEPT ![w] = IF @.pc = "await"
                           THEN [@ EXCEPT !.pc = "close", !.ret = "true"]
                           ELSE IdleWriter]

\* _async_refresh after _async_update_data returned or raised
EndRefresh(c, published, ok) ==
    /\ cyc[c].pc = "end"
    /\ data' = published
    /\ last_update_success' = ok
    /\ cyc' = [cyc EXCEPT ![c] = IdleCycle]
    /\ stray' = Dropped(cyc[c].sock, cyc[c].busy)
    /\ timerArmed' = TRUE
    /\ IF cyc[c].trig = "request"
       THEN debLock' = FALSE /\ debTimer' = TRUE /\ UNCHANGED debPending
       ELSE UNCHANGED debVars
    /\ wr' = Wake(cyc[c].waiter)
    /\ UNCHANGED <<envVars, dev>>

\* coordinator.py 115, 63: _fetch_data returned its dictionary
Publish(c) ==
    /\ cyc[c].err = "none"
    /\ EndRefresh(c, Snapshot(c), TRUE)

\* a refresh that would store the partial dictionary of a failed cycle
UpdateFailedStoresPartial(c) ==
    /\ cyc[c].err # "none"
    /\ EndRefresh(c, Snapshot(c), FALSE)

\* coordinator.py 64-67, 101-109: UpdateFailed
UpdateFailed(c) ==
    /\ cyc[c].err # "none"
    /\ EndRefresh(c, data, FALSE)

\* a connect that outlived its frame returns in its thread
StrayConnectDone ==
    /\ stray.connecting
    /\ \E opened \in BOOLEAN :
          stray' = [connecting |-> FALSE, open |-> stray.open \/ opened]
    /\ UNCHANGED <<coordVars, dev, cyc, wr, timerArmed, debVars>>

----------------------------------------------------------------------------
(* The write path: async_write_register / async_write_coil and callers     *)

\* the write holds a transport session: from its connect to its close
WriteSession(w) == wr[w].pc \in {"connect", "write", "await", "close"}

WStep(w, rec) == wr' = [wr EXCEPT ![w] = rec]

\* int(): truncation toward zero of n / d (d > 0)
Trunc(n, d) == IF n >= 0 THEN n \div d ELSE -((-n) \div d)

\* coordinator.py 254-264, 296-306: a fresh client, connect submitted
StartWrite(w, space, addr, val, origin) ==
    /\ data # None
    /\ InFlightCount < MaxInFlight
    /\ wr[w].pc = "idle"
    /\ WStep(w, [IdleWriter EXCEPT !.pc = "connect", !.space = space, !.addr = addr,
                                   !.val = val, !.origin = origin, !.calls = 1])
    /\ UNCHANGED <<coordVars, dev, cyc, timerArmed, debVars, stray>>

\* coordinator.py 252
async_write_register(w) ==
    \E call \in WriteRegisterCalls :
        StartWrite(w, "holding", call[1], call[2], "api")

\* coordinator.py 293
async_write_coil(w) ==
    \E call \in WriteCoilCalls :
        StartWrite(w, "coil", call[1], call[2], "api")

\* number.py 167-177: raw_value = int(value / scale); value and scale in tenths
async_set_native_value(w) ==
    \E register \in HOLDING_REGISTER_MAP, value \in NumberValues :
        StartWrite(w, "holding", register, Trunc(value, HoldingScale(register)), "number")

\* coordinator.py 261-274, 303-316: connected, the write is submitted
WConnectOK(w) ==
    /\ wr[w].pc = "connect"
    /\ WStep(w, [wr[w] EXCEPT !.pc = "write", !.sock = TRUE, !.calls = @ + 1,
                              !.attempts = @ + 1])
    /\ UNCHANGED <<coordVars, dev, cyc, timerArmed, debVars, stray>>

\* coordinator.py 265-267, 284-286: connect returned False or raised
WConnectFails(w) ==
    /\ wr[w].pc = "connect"
    /\ WStep(w, [wr[w] EXCEPT !.pc = "close", !.ret = "false"])
    /\ UNCHANGED <<coordVars, dev, cyc, timerArmed, debVars, stray>>

\* coordinator.py 261-264, 284-286: wait_for gave up (10 s); the job runs on
WConnectTimeout(w) ==
    /\ wr[w].pc = "connect"
    /\ WStep(w, [wr[w] EXCEPT !.pc = "close", !.ret = "false",
                              !.busy = @ \cup {"connect"}])
    /\ UNCHANGED <<coordVars, dev, cyc, timerArmed, debVars, stray>>

\* the device stores a written value
DevWrite(space, a, v) ==
    IF a \in DOMAIN dev[space] THEN [dev EXCEPT ![space][a] = v] ELSE dev

\* coordinator.py 276-282, 318-324: no error; refresh requested and awaited
WriteOK(w) ==
    /\ wr[w].pc = "write"
    /\ dev' = DevWrite(wr[w].space, wr[w].addr, wr[w].val)
    /\ WStep(w, IF RunsInline
                THEN [wr[w] EXCEPT !.pc = "await", !.committed = TRUE, !.asked = TRUE]
                ELSE [wr[w] EXCEPT !.pc = "close", !.committed = TRUE, !.asked = TRUE,
                                   !.ret = "true"])
    /\ RequestRefresh(w)
    /\ UNCHANGED <<coordVars, stray>>

\* a write that would ask for a refresh although the device refused it
WriteFailsAsksRefresh(w) ==
    /\ wr[w].pc = "write"
    /\ WStep(w, [wr[w] EXCEPT !.pc = "close", !.ret = "false"])
    /\ RequestRefresh(0)
    /\ UNCHANGED <<coordVars, dev, stray>>

\* coordinator.py 276-278, 284-286: error response or exception
WriteFails(w) ==
    /\ wr[w].pc = "write"
    /\ WStep(w, [wr[w] EXCEPT !.pc = "close", !.ret = "false"])
    /\ UNCHANGED <<coordVars, dev, cyc, timerArmed, debVars, stray>>

\* coordinator.py 269-274, 284-286: wait_for gave up (5 s); the job runs on
\* and may still reach the device
WriteTimeout(w) ==
    /\ wr[w].pc = "write"
    /\ \E landed \in BOOLEAN :
          dev' = IF landed THEN DevWrite(wr[w].space, wr[w].addr, wr[w].val) ELSE dev
    /\ WStep(w, [wr[w] EXCEPT !.pc = "close", !.ret = "false"])
    /\ UNCHANGED <<coordVars, cyc, timerArmed, debVars, stray>>

\* coordinator.py 287-291, 331-335: finally, client.close; then the caller
\* (number.py 178-180 requests a second refresh after a successful write)
WClose(w) ==
    /\ wr[w].pc = "close"
    /\ stray' = Dropped(FALSE, wr[w].busy)
    /\ IF wr[w].origin = "number" /\ wr[w].ret = "true"
       THEN /\ WStep(w, IF RunsInline
                        THEN [wr[w] EXCEPT !.pc = "await2", !.sock = FALSE, !.busy = {}]
                        ELSE IdleWriter)
            /\ RequestRefresh(w)
       ELSE /\ WStep(w, IdleWriter)
            /\ UNCHANGED <<cyc, timerArmed, debVars>>
    /\ UNCHANGED <<coordVars, dev>>

\* a job that outlived its wait_for returns in its thread
WOrphanDone(w) ==
    /\ WriteSession(w)
    /\ \E k \in wr[w].busy, opened \in BOOLEAN :
          WStep(w, [wr[w] EXCEPT !.busy = @ \ {k},
                                !.sock = IF k = "connect" /\ opened THEN TRUE ELSE @])
    /\ UNCHANGED <<coordVars, dev, cyc, timerArmed, debVars, stray>>

----------------------------------------------------------------------------

\* the steps of a poll cycle whose reads succeed
CycleStep(c) ==
    \/ ConnectOK(c)
    \/ ConnectFails(c)
    \/ ReadOK(c)
    \/ CycleTimeout(c)
    \/ Close(c)
    \/ Publish(c)
    \/ UpdateFailed(c)

\* the steps of a poll cycle that meets read errors and timed-out jobs
CycleFault(c) ==
    \/ ConnectTimeout(c)
    \/ ReadError(c)
    \/ ReadTimeout(c)
    \/ OrphanDone(c)

WriterStep(w) ==
    \/ async_write_register(w)
    \/ async_write_coil(w)
    \/ async_set_native_value(w)
    \/ WConnectOK(w)
    \/ WConnectFails(w)
    \/ WConnectTimeout(w)
    \/ WriteOK(w)
    \/ WriteFails(w)
    \/ WriteTimeout(w)
    \/ WClose(w)
    \/ WOrphanDone(w)

(* Polls, refresh requests and writes together; the reads of a poll succeed *)
Next ==
    \/ TimerFire
    \/ DebouncerTimerFinish
    \/ ExternalRequestRefresh
    \/ StrayConnectDone
    \/ \E c \in Cycles : CycleStep(c)
    \/ \E w \in Writers : WriterStep(w)

Spec == Init /\ [][Next]_vars

(* Polling alone, on the larger catalogue                                  *)
NextPoll ==
    \/ TimerFire
    \/ StrayConnectDone
    \/ \E c \in Cycles : CycleStep(c) \/ CycleFault(c)

SpecPoll == InitPoll /\ [][NextPoll]_vars

----------------------------------------------------------------------------
(* Properties                                                              *)

\* the addresses of the catalogue, as <<space, address>>
CatalogueKeys ==
    {<<"input", a>> : a \in INPUT_REGISTER_MAP}
    \cup {<<"holding", a>> : a \in HOLDING_REGISTER_MAP}
    \cup {<<"coil", a>> : a \in COIL_REGISTER_MAP}

SnapshotField(space) ==
    CASE space = "input" -> "input_registers"
      [] space = "holding" -> "holding_registers"
      [] space = "coil" -> "coil_registers"

HasKey(snapshot, k) == k[2] \in DOMAIN snapshot[SnapshotField(k[1])]

ValueOf(snapshot, k) == snapshot[SnapshotField(k[1])][k[2]]

\* what a read of address k stores while the device holds its present value
DeviceValue(k) == IF k[1] = "coil" THEN dev.coil[k[2]] ELSE Decode(dev[k[1]][k[2]])

\* the step in which the refresh of cycle c ends
Ends(c) == cyc[c].pc = "end" /\ cyc'[c].pc = "idle"

NoCycle == \A c \in Cycles : ~InFlight(c)
NoWrite == \A w \in Writers : wr[w].pc \in {"idle", "await2"}

\* C1: a poll cycle in which exactly one catalogue address fails to read ends
\* as a successful update whose snapshot has no key for that address and the
\* value read from the device for every other catalogue address of the three
\* spaces.
C1_OneFailedAddress ==
    [][\A c \in Cycles :
          (Ends(c) /\ cyc[c].err = "none" /\ Cardinality(FailedReads(c)) = 1)
            => /\ last_update_success'
               /\ \A k \in FailedReads(c) : ~HasKey(data', k)
               /\ \A k \in CatalogueKeys \ FailedReads(c) :
                     HasKey(data', k) /\ ValueOf(data', k) = DeviceValue(k)]_vars

\* C2: a poll cycle that fails (connect failure, connect timeout, overall
\* timeout) ends as an update failure: the snapshot is the one published
\* before, last_update_success is false; the snapshot changes only when a
\* cycle without failure ends.
C2_FailedCycleKeepsSnapshot ==
    [][/\ \A c \in Cycles :
             (Ends(c) /\ cyc[c].err # "none")
               => data' = data /\ last_update_success' = FALSE
       /\ data' # data => \E c \in Cycles : Ends(c) /\ cyc[c].err = "none"]_vars

\* C2 witness: a snapshot was published and a later cycle stands at its failed
\* end after a connect timeout.
C2_Witness ==
    /\ data # None
    /\ \E c \in Cycles : cyc[c].pc = "end" /\ cyc[c].err = "connect_timeout"

\* C3: at most one poll cycle holds a transport session at any time.
C3_AtMostOneCycle ==
    \A c, d \in Cycles : PollSession(c) /\ PollSession(d) => c = d

\* C4: the transport session of a write never overlaps the transport session
\* of a poll cycle.
C4_WriteNeverOverlapsPoll ==
    \A w \in Writers, c \in Cycles : ~(WriteSession(w) /\ PollSession(c))

\* C5: a write of a raw value outside [min, max] of its holding register is
\* rejected with no transport call.
C5_OutOfRangeNoTransport ==
    \A w \in Writers :
        (/\ wr[w].pc # "idle"
         /\ wr[w].space = "holding"
         /\ wr[w].addr \in HOLDING_REGISTER_MAP
         /\ (wr[w].val < HoldingMinRaw(wr[w].addr) \/ wr[w].val > HoldingMaxRaw(wr[w].addr)))
          => wr[w].calls = 0

\* C6: a write to an address without a descriptor makes no transport call.
C6_UnknownRegisterNoTransport ==
    \A w \in Writers :
        (/\ wr[w].pc # "idle"
         /\ \/ wr[w].space = "holding" /\ wr[w].addr \notin HOLDING_REGISTER_MAP
            \/ wr[w].space = "coil" /\ wr[w].addr \notin COIL_REGISTER_MAP)
          => wr[w].calls = 0

\* C7: a write whose connect or write job fails goes to its close with the
\* result False, after at most one write attempt, with no refresh requested
\* and with the snapshot as it was; its return requests no refresh either.
C7_FailedWrite ==
    [][\A w \in Writers :
          /\ (wr[w].pc \in {"connect", "write"} /\ wr'[w].pc = "close"
              /\ ~wr'[w].committed)
               => /\ wr'[w].ret = "false"
                  /\ wr'[w].attempts <= 1
                  /\ ~wr'[w].asked
                  /\ UNCHANGED <<data, last_update_success, cyc, timerArmed, debVars>>
          /\ (wr[w].pc = "close" /\ wr[w].ret = "false" /\ wr'[w].pc # "close")
               => /\ wr'[w] = IdleWriter
                  /\ UNCHANGED <<data, last_update_success, cyc, timerArmed, debVars>>]_vars

\* C7 witness: a write job was attempted and failed while a snapshot is
\* published; the call stands before its close.
C7_Witness ==
    /\ data # None
    /\ \E w \in Writers :
          wr[w].pc = "close" /\ wr[w].ret = "false" /\ wr[w].attempts = 1

\* C8: a write the device accepted returns without waiting for the refresh
\* it requested: the call is never suspended until a poll cycle ends.
C8_WriteReturnsWithoutWaiting ==
    \A w \in Writers : wr[w].committed => wr[w].pc # "await"

\* C9: when the refresh a successful write of v to catalogue address a started
\* ends without read failures, the snapshot maps a to v.
C9_RefreshShowsWrittenValue ==
    [][\A c \in Cycles :
          LET w == cyc[c].waiter
          IN (/\ Ends(c) /\ cyc[c].err = "none" /\ FailedReads(c) = {}
              /\ w \in Writers
              /\ wr[w].pc = "await"
              /\ <<wr[w].space, wr[w].addr>> \in CatalogueKeys)
               =>   /\ HasKey(data', <<wr[w].space, wr[w].addr>>)
                       /\ ValueOf(data', <<wr[w].space, wr[w].addr>>) = wr[w].val]_vars

\* C10: while no poll cycle and no write is in progress, no connection to the
\* device is open.
C10_NoConnectionWhenIdle ==
    (NoCycle /\ NoWrite) => ~stray.open

----------------------------------------------------------------------------
(* Register values as the sensors show them (sensor.py)                    *)

\* one register read off the device: the word, the descriptor's scale in
\* tenths (0.1 is 1, 1 is 10) and, once evaluated, the value the poller
\* stores and the sensor's native_value in tenths.  An optional number is a
\* set: {} is Python's None, {v} is the number v.
Reading(raw, scale) ==
    [fn |-> "read", raw |-> raw, scale |-> scale, done |-> FALSE,
     stored |-> {}, native |-> {}]

\* sensor.py 115-131, 198-214: no descriptor has a "signed" entry, offset is 0
native_value(raw_value, scale) ==
    IF raw_value = {} \/ raw_value = {65336}
    THEN {}
    ELSE {v * scale : v \in raw_value}

InitDecode ==
    /\ Constructed(SmallCatalogue)
    /\ flow_rate_lpm = DefaultFlowRate
    /\ wc = NoController
    /\ now = 0
    /\ evaluated \in {Reading(r, scale) : r \in 0..65535, scale \in {1, 10}}

\* coordinator.py 132-137 followed by the sensor's native_value
ReadWord ==
    /\ ~evaluated.done
    /\ evaluated' = [evaluated EXCEPT !.done = TRUE,
                                      !.stored = {Decode(evaluated.raw)},
                                      !.native = native_value({Decode(evaluated.raw)},
                                                              evaluated.scale)]
    /\ UNCHANGED <<catalogue, data, last_update_success, dev, cyc, wr, timerArmed,
                   debVars, stray, flow_rate_lpm, wc, now>>

SpecDecode == InitDecode /\ [][ReadWord]_vars

\* C11: every 16-bit word r read for a register is stored as r when
\* r < 32768 and as r - 65536 otherwise, and the sensor shows that value
\* times the scale; 0, 32767, 32768, 65535 give 0, 32767, -32768, -1.
C11_SignedDecode ==
    evaluated.done =>
        LET r == evaluated.raw
            v == IF r < 32768 THEN r ELSE r - 65536
        IN /\ evaluated.stored = {v}
           /\ evaluated.native = {v * evaluated.scale}
           /\ r = 0 => evaluated.stored = {0}
           /\ r = 32767 => evaluated.stored = {32767}
           /\ r = 32768 => evaluated.stored = {-32768}
           /\ r = 65535 => evaluated.stored = {-1}

\* C11 witness: the word 32768 was read and stored as -32768.
C11_Witness ==
    evaluated.done /\ evaluated.raw = 32768 /\ evaluated.stored = {-32768}

\* the word sensor.py compares with to recognise "no data" (lines 121, 204)
NoDataWord == {65336}

\* C12: a register whose word is the "no data" pattern is shown as absent.
C12_SentinelIsAbsent ==
    (evaluated.done /\ evaluated.raw \in NoDataWord) => evaluated.native = {}

----------------------------------------------------------------------------
(* Derived values: what _calculate_derived_values puts into the snapshot   *)
(* and what the COP sensor shows, for the same input registers             *)

\* sensor.py 407-442: GrantAerona3COPSensor.native_value, in hundredths
\* cop = (flow_rate * 4.186 * delta_t / 60) / (power_raw * 100 / 1000)
cop_native_value(input_regs, rate) ==
    IF /\ 9 \in DOMAIN input_regs
       /\ 0 \in DOMAIN input_regs
       /\ 3 \in DOMAIN input_regs
       /\ input_regs[3] > 0
       /\ input_regs[9] - input_regs[0] > 0
    THEN {RoundDiv(rate * 4186 * (input_regs[9] - input_regs[0]), 600 * input_regs[3])}
    ELSE {}

\* flow rates the number entity can be set to (number.py 279-285), in tenths
FlowRates == {DefaultFlowRate, 200}

\* input registers 0 (return), 9 (flow) and 3 (power, in 100 W), each read or not
InputSamples ==
    {[a \in keys |-> IF a = 0 THEN t0 ELSE IF a = 9 THEN t9 ELSE p] :
        keys \in SUBSET {0, 3, 9}, t0 \in {30, 35}, t9 \in {30, 35, 40}, p \in {0, 12, 25}}

Derivation(input_data, rate) ==
    [fn |-> "derive", input_data |-> input_data, rate |-> rate, done |-> FALSE,
     calculated |-> <<>>, cop_sensor |-> {}]

InitDerived ==
    /\ Constructed(SmallCatalogue)
    /\ wc = NoController
    /\ now = 0
    /\ flow_rate_lpm \in FlowRates
    /\ evaluated \in {Derivation(m, flow_rate_lpm) : m \in InputSamples}

\* coordinator.py 97-99 with the flow rate in force, and the COP sensor
Derive ==
    /\ ~evaluated.done
    /\ evaluated' =
          [evaluated EXCEPT
              !.done = TRUE,
              !.calculated = CalculateDerivedValues(evaluated.input_data, flow_rate_lpm),
              !.cop_sensor = cop_native_value(evaluated.input_data, flow_rate_lpm)]
    /\ UNCHANGED <<catalogue, data, last_update_success, dev, cyc, wr, timerArmed,
                   debVars, stray, flow_rate_lpm, wc, now>>

SpecDerived == InitDerived /\ [][Derive]_vars

\* the electrical input is missing or 0
NoPower(input_data) == 3 \notin DOMAIN input_data \/ input_data[3] = 0

BothTemperatures(input_data) == 0 \in DOMAIN input_data /\ 9 \in DOMAIN input_data

\* C13: when the electrical input power is 0 or the power register is
\* missing, the derived map has no cop key and the COP sensor shows nothing;
\* a cop exists only for a power above 0.
C13_NoCopWithoutPower ==
    evaluated.done =>
        /\ NoPower(evaluated.input_data)
             => "cop" \notin DOMAIN evaluated.calculated /\ evaluated.cop_sensor = {}
        /\ ("cop" \in DOMAIN evaluated.calculated \/ evaluated.cop_sensor # {})
             => 3 \in DOMAIN evaluated.input_data /\ evaluated.input_data[3] > 0

\* C13 witness: both temperatures were read, the power register reads 0.
C13_Witness ==
    /\ evaluated.done
    /\ BothTemperatures(evaluated.input_data)
    /\ 3 \in DOMAIN evaluated.input_data
    /\ evaluated.input_data[3] = 0

\* C14: heat_output_w is in the derived map only when delta_t is available
\* and above 0 and the electrical power is available and above 0.
C14_HeatOnlyForPositiveDelta ==
    (evaluated.done /\ "heat_output_w" \in DOMAIN evaluated.calculated)
      => /\ BothTemperatures(evaluated.input_data)
         /\ evaluated.input_data[9] - evaluated.input_data[0] > 0
         /\ ~NoPower(evaluated.input_data)
         /\ evaluated.input_data[3] > 0

\* C15: delta_t is in the derived map exactly when the flow and the return
\* temperature are both present, and is then flow - return (in hundredths).
C15_DeltaTWhenBothPresent ==
    evaluated.done =>
        /\ "delta_t" \in DOMAIN evaluated.calculated <=> BothTemperatures(evaluated.input_data)
        /\ "delta_t" \in DOMAIN evaluated.calculated
             => evaluated.calculated["delta_t"]
                  = 100 * (evaluated.input_data[9] - evaluated.input_data[0])

\* C16: a computed heat_output_w equals (flow_rate_lpm * 60) * 4.186 *
\* delta_t / 60 (here in tenths of a watt) and cop equals it divided by the
\* electrical input in watts (here in hundredths).
C16_HeatOutputFormula ==
    (evaluated.done /\ "heat_output_w" \in DOMAIN evaluated.calculated)
      => LET delta_t == evaluated.input_data[9] - evaluated.input_data[0]
             power_w == evaluated.input_data[3] * 100
         IN /\ evaluated.calculated["heat_output_w"]
                 = RoundDiv(evaluated.rate * 4186 * delta_t, 1000)
            /\ evaluated.calculated["cop"]
                 = RoundDiv(evaluated.rate * 4186 * delta_t, 100 * power_w)

----------------------------------------------------------------------------
(* The published snapshot while cycles, writes and flow-rate changes go on *)

\* a catalogue whose input registers give derived values
DerivedCatalogue == [input |-> {0, 3, 9}, holding |-> {2}, coil |-> {1}]

InitSnapshot == Setup(DerivedCatalogue)

\* a flow-rate change that would recalculate the published snapshot
SetFlowRateRecalculates ==
    /\ \E value \in FlowRates \ {flow_rate_lpm} :
          /\ flow_rate_lpm' = value
          /\ data' = IF data = None THEN data
                     ELSE [data EXCEPT !.calculated =
                              CalculateDerivedValues(data.input_registers, value)]
    /\ UNCHANGED <<catalogue, wc, now, evaluated, last_update_success, dev, cyc, wr,
                   timerArmed, debVars, stray>>

\* number.py 279-285: GrantAerona3FlowRateNumber.async_set_native_value
SetFlowRate ==
    /\ \E value \in FlowRates \ {flow_rate_lpm} : flow_rate_lpm' = value
    /\ UNCHANGED <<catalogue, wc, now, evaluated, data, last_update_success, dev, cyc,
                   wr, timerArmed, debVars, stray>>

\* a register write through the coordinator whose jobs all return in time
RegisterWriteStep(w) ==
    \/ async_write_register(w)
    \/ WConnectOK(w)
    \/ WConnectFails(w)
    \/ WriteOK(w)
    \/ WriteFails(w)
    \/ WClose(w)

NextSnapshot ==
    \/ TimerFire
    \/ DebouncerTimerFinish
    \/ SetFlowRate
    \/ \E c \in Cycles : CycleStep(c)
    \/ \E w \in Writers : RegisterWriteStep(w)

SpecSnapshot == InitSnapshot /\ [][NextSnapshot]_vars

\* C17: the snapshot is replaced only when one poll cycle has finished without
\* failure, in one step, by exactly what that cycle read and calculated (all
\* four parts from that one cycle, all its reads attempted); no other step (a
\* running cycle, a write, a flow-rate change) changes it.
C17_SnapshotOfOneCycle ==
    [][data' # data =>
          \E c \in Cycles :
             /\ cyc[c].pc = "end" /\ cyc[c].err = "none" /\ cyc[c].i = PlanEnd
             /\ cyc'[c] = IdleCycle
             /\ flow_rate_lpm' = flow_rate_lpm /\ dev' = dev
             /\ data' = [input_registers |-> cyc[c].input,
                         holding_registers |-> cyc[c].holding,
                         coil_registers |-> cyc[c].coil,
                         calculated |-> cyc[c].calculated]]_vars

\* C17 witness: the snapshot was calculated with the default flow rate, the
\* flow rate has been changed since, a write has reached the device and a
\* later cycle holds part of its reads.
C17_Witness ==
    /\ data # None
    /\ "cop" \in DOMAIN data.calculated
    /\ data.calculated = CalculateDerivedValues(data.input_registers, DefaultFlowRate)
    /\ flow_rate_lpm # DefaultFlowRate
    /\ \E a \in DOMAIN data.holding_registers : dev.holding[a] # data.holding_registers[a]
    /\ \E c \in Cycles : cyc[c].pc = "read" /\ 0 \in DOMAIN cyc[c].input

----------------------------------------------------------------------------
(* The heating curve (weather_compensation.py); temperatures in tenths     *)

\* weather_compensation.py 74-82: the primary curve, (-5.0, 18.0, 25.0, 45.0)
PrimaryCurve ==
    [name |-> "Primary", min_outdoor_temp |-> -50, max_outdoor_temp |-> 180,
     min_flow_temp |-> 250, max_flow_temp |-> 450]

\* weather_compensation.py 84-92: the boost curve, (-10.0, 10.0, 35.0, 55.0)
BoostCurve ==
    [name |-> "Boost", min_outdoor_temp |-> -100, max_outdoor_temp |-> 100,
     min_flow_temp |-> 350, max_flow_temp |-> 550]

Max(a, b) == IF a >= b THEN a ELSE b

Min(a, b) == IF a <= b THEN a ELSE b

\* a curve that would not clamp the outdoor temperature: the line continues
\* beyond both ends
calculate_flow_temperature_unclamped(config, outdoor_temp) ==
    LET temp_range == config.max_outdoor_temp - config.min_outdoor_temp
        flow_range == config.max_flow_temp - config.min_flow_temp
    IN RoundDiv(config.max_flow_temp * temp_range
                  - (outdoor_temp - config.min_outdoor_temp) * flow_range,
                temp_range)

\* weather_compensation.py 31-41: LinearHeatingCurve.calculate_flow_temperature
calculate_flow_temperature(config, outdoor_temp) ==
    LET clamped == Max(config.min_outdoor_temp, Min(config.max_outdoor_temp, outdoor_temp))
        temp_range == config.max_outdoor_temp - config.min_outdoor_temp
        flow_range == config.max_flow_temp - config.min_flow_temp
    IN IF clamped <= config.min_outdoor_temp THEN config.max_flow_temp
       ELSE IF clamped >= config.max_outdoor_temp THEN config.min_flow_temp
       ELSE RoundDiv(config.max_flow_temp * temp_range
                       - (clamped - config.min_outdoor_temp) * flow_range,
                     temp_range)

\* outdoor temperatures from -15.0 to 35.0
OutdoorTemps == -150..350

CurveCall(config, outdoor_temp) ==
    [fn |-> "curve", config |-> config, outdoor_temp |-> outdoor_temp, done |-> FALSE,
     result |-> {}]

InitCurve ==
    /\ Constructed(SmallCatalogue)
    /\ flow_rate_lpm = DefaultFlowRate
    /\ wc = NoController
    /\ now = 0
    /\ evaluated \in {CurveCall(config, t) : config \in {PrimaryCurve, BoostCurve},
                                             t \in OutdoorTemps}

Calculate ==
    /\ ~evaluated.done
    /\ evaluated' =
          [evaluated EXCEPT
              !.done = TRUE,
              !.result = {calculate_flow_temperature(evaluated.config,
                                                     evaluated.outdoor_temp)}]
    /\ UNCHANGED <<catalogue, data, last_update_success, dev, cyc, wr, timerArmed,
                   debVars, stray, flow_rate_lpm, wc, now>>

SpecCurve == InitCurve /\ [][Calculate]_vars

\* the claimed value times the outdoor range:
\* (max_flow - ratio * (max_flow - min_flow)) * (max_outdoor - min_outdoor)
ClaimedFlowTimesRange(config, outdoor_temp) ==
    LET clamped == Max(config.min_outdoor_temp, Min(config.max_outdoor_temp, outdoor_temp))
    IN config.max_flow_temp * (config.max_outdoor_temp - config.min_outdoor_temp)
         - (clamped - config.min_outdoor_temp)
             * (config.max_flow_temp - config.min_flow_temp)

\* the end points and the three named results of the curve (-5, 18, 25, 45)
CurveEndsAndExamples ==
    LET config == evaluated.config
        t == evaluated.outdoor_temp
    IN /\ t <= config.min_outdoor_temp => evaluated.result = {config.max_flow_temp}
       /\ t >= config.max_outdoor_temp => evaluated.result = {config.min_flow_temp}
       /\ config = PrimaryCurve =>
             /\ t = -100 => evaluated.result = {450}
             /\ t = 300 => evaluated.result = {250}
             /\ t = 65 => evaluated.result = {350}

\* C18 (as stated): the curve returns exactly max_flow - ratio * (max_flow -
\* min_flow) for the clamped outdoor temperature, max_flow at or below
\* min_outdoor, min_flow at or above max_outdoor, and 45.0, 25.0, 35.0 for
\* -10, 30, 6.5 on the curve (-5, 18, 25, 45).
C18_CurveExact ==
    evaluated.done =>
        /\ CurveEndsAndExamples
        /\ \A v \in evaluated.result :
              v * (evaluated.config.max_outdoor_temp - evaluated.config.min_outdoor_temp)
                = ClaimedFlowTimesRange(evaluated.config, evaluated.outdoor_temp)

\* C18 (amended): the curve returns max_flow - ratio * (max_flow - min_flow)
\* for the clamped outdoor temperature rounded to one decimal: the returned
\* tenth is within half a tenth of that value; the end points and the three
\* named results are as claimed.
C18_CurveRounded ==
    evaluated.done =>
        /\ CurveEndsAndExamples
        /\ \A v \in evaluated.result :
              LET temp_range == evaluated.config.max_outdoor_temp
                                  - evaluated.config.min_outdoor_temp
                  d == v * temp_range
                         - ClaimedFlowTimesRange(evaluated.config, evaluated.outdoor_temp)
              IN /\ 2 * d <= temp_range
                 /\ 2 * d >= -temp_range
                 /\ evaluated.config.min_flow_temp <= v
                 /\ v <= evaluated.config.max_flow_temp

\* C18 witness: inside the range of the curve (-5, 18, 25, 45), the outdoor
\* temperature 0.0 gave 40.7 (45 - 5/23 * 20 = 40.65...).
C18_Witness ==
    /\ evaluated.done
    /\ evaluated.config = PrimaryCurve
    /\ evaluated.outdoor_temp = 0
    /\ evaluated.result = {407}

----------------------------------------------------------------------------
(* Boost mode of the WeatherCompensationController; time in minutes        *)

MaxTime == 4

\* duration_minutes of an activation
Durations == {1, 2}

\* the catalogue holds the outdoor air temperature, input register 6
OutdoorCatalogue == [input |-> {6}, holding |-> {2}, coil |-> {1}]

\* weather_compensation.py 54-68, 70-95: constructed and set up; the boost
\* curve exists when dual_weather_compensation is configured
Controller(dual_weather_compensation) ==
    [NoController EXCEPT !.secondary_curve = dual_weather_compensation]

\* the controller call that ran last; expired: it was a tick that began with
\* boost active and the time later than boost_end_time; returned: its result
Called(fn, expired, returned) == [fn |-> fn, expired |-> expired, returned |-> returned]

InitBoost ==
    /\ Constructed(OutdoorCatalogue)
    /\ flow_rate_lpm = DefaultFlowRate
    /\ now = 0
    /\ wc \in {Controller(dual) : dual \in BOOLEAN}
    /\ evaluated = Called("setup", FALSE, "None")

\* weather_compensation.py 118-124: _get_outdoor_temperature, in tenths
get_outdoor_temperature ==
    IF 6 \in DOMAIN data.input_registers
    THEN {data.input_registers[6] * 10}
    ELSE {}

\* weather_compensation.py 126-129: _calculate_target_flow_temperature
calculate_target_flow_temperature(ctl, outdoor_temp) ==
    IF ctl.boost_active /\ ctl.secondary_curve
    THEN calculate_flow_temperature(BoostCurve, outdoor_temp)
    ELSE calculate_flow_temperature(PrimaryCurve, outdoor_temp)

\* weather_compensation.py 109: datetime.now() > self.boost_end_time; late:
\* the clock has moved on since the call read it (within the same minute)
Expired(ctl, late) ==
    ctl.boost_active /\ \E end \in ctl.boost_end_time : now > end \/ (late /\ now = end)

RECURSIVE update_weather_compensation(_, _)
RECURSIVE deactivated(_, _)

\* a deactivation that would keep the end time
deactivated_keeps_end_time(ctl, late) ==
    IF ~ctl.boost_active
    THEN ctl
    ELSE update_weather_compensation(
             [ctl EXCEPT !.boost_active = FALSE, !.active_curve = "primary"], late)

\* weather_compensation.py 97-116: _async_update_weather_compensation; the
\* controller's fields when it returns
update_weather_compensation(ctl, late) ==
    IF get_outdoor_temperature = {}
    THEN ctl
    ELSE LET outdoor_temp == CHOOSE t \in get_outdoor_temperature : TRUE
             calculated == [ctl EXCEPT !.last_outdoor_temp = {outdoor_temp},
                                       !.last_flow_temp =
                               {calculate_target_flow_temperature(ctl, outdoor_temp)}]
         IN IF Expired(calculated, late) THEN deactivated(calculated, late)
            ELSE calculated

\* weather_compensation.py 147-158: deactivate_boost_mode; the fields after it
deactivated(ctl, late) ==
    IF ~ctl.boost_active
    THEN ctl
    ELSE update_weather_compensation(
             [ctl EXCEPT !.boost_active = FALSE, !.active_curve = "primary",
                         !.boost_end_time = {}], late)

\* the controller exists beside a coordinator whose first refresh succeeded
ControllerCall(fn, expired, returned, ctl) ==
    /\ data # None
    /\ wc' = ctl
    /\ evaluated' = Called(fn, expired, returned)
    /\ UNCHANGED <<catalogue, flow_rate_lpm, now, data, last_update_success, dev, cyc,
                   wr, timerArmed, debVars, stray>>

\* the 60 s interval callback (weather_compensation.py 93, 97-116)
WcTick ==
    ControllerCall("tick", Expired(wc, FALSE), "None",
                   update_weather_compensation(wc, FALSE))

\* an activation that would not ask for the boost curve
activate_boost_mode_any_curve(duration_minutes) ==
    \E late \in BOOLEAN :
        ControllerCall("activate", FALSE, "True",
                       update_weather_compensation(
                           [wc EXCEPT !.boost_active = TRUE, !.active_curve = "secondary",
                                      !.boost_end_time = {now + duration_minutes}],
                           late))

\* weather_compensation.py 131-145: activate_boost_mode
activate_boost_mode(duration_minutes) ==
    IF ~wc.secondary_curve
    THEN ControllerCall("activate", FALSE, "False", wc)
    ELSE \E late \in BOOLEAN :
            ControllerCall("activate", FALSE, "True",
                           update_weather_compensation(
                               [wc EXCEPT !.boost_active = TRUE,
                                          !.active_curve = "secondary",
                                          !.boost_end_time = {now + duration_minutes}],
                               late))

\* weather_compensation.py 147-158: deactivate_boost_mode
deactivate_boost_mode ==
    ControllerCall("deactivate", FALSE, "None", deactivated(wc, FALSE))

\* a minute passes
ClockAdvance ==
    /\ now < MaxTime
    /\ now' = now + 1
    /\ UNCHANGED <<catalogue, flow_rate_lpm, wc, evaluated, data, last_update_success,
                   dev, cyc, wr, timerArmed, debVars, stray>>

NextBoost ==
    \/ TimerFire
    \/ \E c \in Cycles : CycleStep(c) \/ ReadError(c)
    \/ ClockAdvance
    \/ WcTick
    \/ \E duration_minutes \in Durations : activate_boost_mode(duration_minutes)
    \/ deactivate_boost_mode

SpecBoost == InitBoost /\ [][NextBoost]_vars

\* C19: a weather-compensation tick that begins with boost active and the
\* time later than the boost end time leaves boost_active false, whatever the
\* latest snapshot holds.
C19_TickEndsExpiredBoost ==
    (evaluated.fn = "tick" /\ evaluated.expired) => ~wc.boost_active

Idle(ctl) ==
    ~ctl.boost_active /\ ctl.active_curve = "primary" /\ ctl.boost_end_time = {}

Boosted(ctl) ==
    /\ ctl.boost_active
    /\ ctl.active_curve = "secondary"
    /\ \E end \in 0..(MaxTime + 2) : ctl.boost_end_time = {end}

\* C20: the controller is always Idle or Boosted; it goes from Idle to
\* Boosted only in an activation and only with a boost curve configured; an
\* activation without one leaves the controller as it was; it goes from
\* Boosted to Idle only in a deactivation or in a tick that found the end
\* time passed.
C20_BoostStateMachine ==
    [][/\ Idle(wc) \/ Boosted(wc)
       /\ Idle(wc') \/ Boosted(wc')
       /\ (Idle(wc) /\ Boosted(wc'))
            => evaluated'.fn = "activate" /\ wc.secondary_curve
       /\ (evaluated'.fn = "activate" /\ ~wc.secondary_curve) => wc' = wc /\ Idle(wc')
       /\ (Boosted(wc) /\ Idle(wc'))
            => \/ evaluated'.fn = "deactivate"
               \/ evaluated'.fn = "tick" /\ evaluated'.expired]_vars

\* C20 witness: a controller with a boost curve was activated and its boost
\* has ended by timeout in a tick.
C20_Witness ==
    /\ evaluated = Called("tick", TRUE, "None")
    /\ Idle(wc)
    /\ wc.secondary_curve
    /\ now > 1

----------------------------------------------------------------------------
(* Engineering value to raw value on the write paths; values, scales and   *)
(* limits in hundredths (scale 0.1 is 10, scale 1 is 100)                  *)

\* const.py: scale, min and max of holding registers 2, 5, 28 and 42
RegisterConfig(register) ==
    CASE register = 2 -> [scale |-> 10, min |-> 2300, max |-> 6000]
      [] register = 5 -> [scale |-> 10, min |-> -2000, max |-> 5000]
      [] register = 28 -> [scale |-> 10, min |-> 4000, max |-> 6000]
      [] register = 42 -> [scale |-> 100, min |-> 100, max |-> 1500]

\* number.py 171-172: raw_value = int(value / scale)
number_raw_value(register, value) == Trunc(value, RegisterConfig(register).scale)

\* climate.py 189-190: register_value = int(temperature / scale), scale of register 2
zone_register_value(temperature) == Trunc(temperature, RegisterConfig(2).scale)

\* climate.py 490: register_value = int(temperature * 10)
dhw_register_value(temperature) == Trunc(temperature * 10, 100)

\* a value set on an entity: the write path, the descriptor and the value
SetValue(path, register, value) ==
    [fn |-> "convert", path |-> path, register |-> register, value |-> value,
     done |-> FALSE, raw |-> {}]

\* the values an entity accepts: within [min, max] of its descriptor
Accepted(register) == RegisterConfig(register).min .. RegisterConfig(register).max

InitConvert ==
    /\ Constructed(SmallCatalogue)
    /\ flow_rate_lpm = DefaultFlowRate
    /\ wc = NoController
    /\ now = 0
    /\ evaluated \in
          {SetValue("number", register, value) :
              register \in {2, 42}, value \in Accepted(2) \cup Accepted(42)}
          \cup {SetValue("number", 5, value) : value \in Accepted(5)}
          \cup {SetValue("zone", 2, value) : value \in Accepted(2)}
          \cup {SetValue("dhw", 28, value) : value \in Accepted(28)}
    /\ evaluated.value \in Accepted(evaluated.register)

\* the raw value the entity hands to async_write_register, which hands it
\* unchanged to client.write_register (coordinator.py 269-274)
Convert ==
    /\ ~evaluated.done
    /\ evaluated' =
          [evaluated EXCEPT
              !.done = TRUE,
              !.raw = CASE evaluated.path = "number"
                             -> {number_raw_value(evaluated.register, evaluated.value)}
                        [] evaluated.path = "zone"
                             -> {zone_register_value(evaluated.value)}
                        [] evaluated.path = "dhw"
                             -> {dhw_register_value(evaluated.value)}]
    /\ UNCHANGED <<catalogue, data, last_update_success, dev, cyc, wr, timerArmed,
                   debVars, stray, flow_rate_lpm, wc, now>>

SpecConvert == InitConvert /\ [][Convert]_vars

\* C21: on every write path the raw value is round(engineering_value /
\* scale), the nearest integer, not the truncation toward zero.
C21_RawIsRounded ==
    evaluated.done =>
        evaluated.raw = {RoundDiv(evaluated.value, RegisterConfig(evaluated.register).scale)}

\* C25: the raw value handed to the transport by a holding-register write is
\* a word in 0..65535 for every engineering value within [min, max].
C25_RawIsUnsignedWord ==
    evaluated.done => evaluated.raw \subseteq 0..65535

----------------------------------------------------------------------------
(* The reads a poll cycle performs                                         *)

\* the cycle has connected and performed its last read
ReadsDone(c) == cyc[c].pc = "close" /\ cyc[c].err = "none"

\* C22: a poll cycle that acquired a connection has attempted a read of every
\* address of the input, holding and coil maps once its reads are done,
\* whatever the outcome of the other reads.
C22_EveryDescriptorAttempted ==
    \A c \in Cycles : ReadsDone(c) => CatalogueKeys \subseteq Attempted(c)

----------------------------------------------------------------------------
(* The time one poll cycle takes, in tenths of a second, on the whole      *)
(* catalogue of const.py                                                   *)

OverallTimeout == 1800
ConnectWait == 300
CriticalReadWait == 30
ReadWait == 20
BatchSleep == 1
batch_size == 5
InputMapSize == 21
HoldingMapSize == 97

\* the operations of a cycle in order: the connect, the critical inputs, the
\* other inputs, the holding registers, the critical coils
TimedPlan ==
    <<"connect">>
    \o [k \in 1..Len(critical_registers) |-> "critical"]
    \o [k \in 1..(InputMapSize - Len(critical_registers)) |-> "rest"]
    \o [k \in 1..HoldingMapSize |-> "holding"]
    \o [k \in 1..Len(critical_coils) |-> "coil"]

TimedPlanEnd == Len(TimedPlan) + 1

\* the wait_for timeout of an operation (coordinator.py 88, 130, 152, 182, 217)
WaitOf(phase) ==
    CASE phase = "connect" -> ConnectWait
      [] phase = "critical" -> CriticalReadWait
      [] OTHER -> ReadWait

\* the sum of the timeouts of the operations of one cycle
FullCycleWait ==
    ConnectWait + Len(critical_registers) * CriticalReadWait
      + (InputMapSize - Len(critical_registers) + HoldingMapSize + Len(critical_coils))
          * ReadWait

\* the place of the first holding register in the plan
FirstHolding == 2 + InputMapSize

\* coordinator.py 198-199: asyncio.sleep(0.1) after each batch but the last
SleepAfter(i) ==
    LET k == i - FirstHolding + 1
    IN IF /\ TimedPlan[i] = "holding"
          /\ k % batch_size = 0
          /\ k < HoldingMapSize
       THEN BatchSleep ELSE 0

TimedCycle ==
    [fn |-> "cycle", i |-> 1, elapsed |-> 0, input_data |-> FALSE,
     read_timed_out |-> FALSE, outcome |-> "running"]

InitTimed ==
    /\ Constructed(SmallCatalogue)
    /\ flow_rate_lpm = DefaultFlowRate
    /\ wc = NoController
    /\ now = 0
    /\ evaluated = TimedCycle

\* coordinator.py 144: the other inputs are read only "if input_data"
TimedSkip(i, input_data) ==
    IF i < TimedPlanEnd /\ TimedPlan[i] = "rest" /\ ~input_data
    THEN FirstHolding
    ELSE i

TimedStep(rec) ==
    /\ evaluated' = [rec EXCEPT !.i = TimedSkip(evaluated.i + 1, rec.input_data),
                                !.elapsed = @ + SleepAfter(evaluated.i)]
    /\ UNCHANGED <<catalogue, data, last_update_success, dev, cyc, wr, timerArmed,
                   debVars, stray, flow_rate_lpm, wc, now>>

Running == evaluated.outcome = "running" /\ evaluated.i < TimedPlanEnd

\* the operation returns at once: connected, or a value was read
OpReturns ==
    /\ Running
    /\ TimedStep([evaluated EXCEPT
                    !.input_data = @ \/ TimedPlan[evaluated.i] \in {"critical", "rest"}])

\* a read returns an error response at once
OpErrors ==
    /\ Running
    /\ TimedPlan[evaluated.i] # "connect"
    /\ TimedStep(evaluated)

\* a read's own wait_for expires before the overall one: the read is skipped
OpTimesOut ==
    /\ Running
    /\ TimedPlan[evaluated.i] # "connect"
    /\ evaluated.elapsed + WaitOf(TimedPlan[evaluated.i]) < OverallTimeout
    /\ TimedStep([evaluated EXCEPT !.elapsed = @ + WaitOf(TimedPlan[evaluated.i]),
                                   !.read_timed_out = TRUE])

\* coordinator.py 62-64: the 180 s wait_for expires while an operation is
\* awaited; _async_update_data raises UpdateFailed
OverallTimesOut ==
    /\ Running
    /\ TimedPlan[evaluated.i] # "connect"
    /\ evaluated.elapsed + WaitOf(TimedPlan[evaluated.i]) >= OverallTimeout
    /\ evaluated' = [evaluated EXCEPT !.outcome = "failed", !.elapsed = OverallTimeout]
    /\ UNCHANGED <<catalogue, data, last_update_success, dev, cyc, wr, timerArmed,
                   debVars, stray, flow_rate_lpm, wc, now>>

\* coordinator.py 115, 62: the last read is done, the dictionary is returned
TimedPublish ==
    /\ evaluated.outcome = "running"
    /\ evaluated.i = TimedPlanEnd
    /\ evaluated' = [evaluated EXCEPT !.outcome = "published"]
    /\ UNCHANGED <<catalogue, data, last_update_success, dev, cyc, wr, timerArmed,
                   debVars, stray, flow_rate_lpm, wc, now>>

NextTimed ==
    \/ OpReturns
    \/ OpErrors
    \/ OpTimesOut
    \/ OverallTimesOut
    \/ TimedPublish

SpecTimed == InitTimed /\ [][NextTimed]_vars

\* C23: the overall timeout being larger than the sum of the timeouts of the
\* operations of one cycle, a connected cycle whose reads time out one by one
\* is never ended by the overall timeout: read failures never fail the cycle.
C23_ReadTimeoutsNeverFailCycle ==
    evaluated.read_timed_out =>
        /\ evaluated.outcome # "failed"
        /\ evaluated.elapsed <= FullCycleWait
        /\ evaluated.elapsed < OverallTimeout

----------------------------------------------------------------------------
(* Words above 32767 of descriptors that are not signed                    *)

\* const.py: no descriptor of the three maps has a "signed" entry
signed(reading) == FALSE

\* C24: for a descriptor that is not signed, a word r in 32768..65535 (other
\* than the "no data" word) is kept as r in the snapshot and in the value the
\* sensor shows.
C24_UnsignedWordKept ==
    (/\ evaluated.done
     /\ ~signed(evaluated)
     /\ evaluated.raw >= 32768
     /\ evaluated.raw \notin NoDataWord)
      => /\ evaluated.stored = {evaluated.raw}
         /\ evaluated.native = {evaluated.raw * evaluated.scale}

----------------------------------------------------------------------------
(* Operations outstanding on the client of one cycle                       *)

\* the cycle awaits an operation it has submitted on its client
Awaiting(c) == cyc[c].pc \in {"connect", "read", "close"}

\* C26: on the client of a poll cycle at most one transport operation is
\* outstanding: no read and no close is awaited while a connect or a read
\* abandoned by its timeout still runs in its thread.
C26_OneOperationPerClient ==
    \A c \in Cycles : Awaiting(c) => cyc[c].busy = {}

----------------------------------------------------------------------------
(* The critical inputs decide whether the other inputs are read            *)

\* a critical input register is in the cycle's input map
CriticalStored(rec) == \E a \in Range(critical_registers) : a \in DOMAIN rec.input

\* the places of the plan the cycle passes over without a read in this step
PassedOver(c) ==
    IF cyc'[c].err = "none" /\ cyc'[c].pc \in {"read", "close"}
    THEN IF cyc[c].pc = "connect" THEN 1..(cyc'[c].i - 1)
         ELSE IF cyc[c].pc = "read" THEN (cyc[c].i + 1)..(cyc'[c].i - 1)
         ELSE {}
    ELSE {}

\* C27: only non-critical inputs are passed over without a read, and only
\* when no critical input was read: then the input map is empty and the cycle
\* still ends as a successful update with an empty input map; when a critical
\* input was read, every other input register gets its read.
C27_CriticalInputsGateTheRest ==
    [][\A c \in Cycles :
          /\ \A k \in PassedOver(c) :
                /\ ReadPlan[k].phase = "rest"
                /\ ~CriticalStored(cyc'[c])
                /\ cyc'[c].input = <<>>
          /\ (cyc'[c].pc = "read" /\ ReadPlan[cyc'[c].i].phase = "rest")
                => CriticalStored(cyc'[c])
          /\ (Ends(c) /\ cyc[c].err = "none" /\ ~CriticalStored(cyc[c]))
                => /\ last_update_success'
                   /\ data'.input_registers = <<>>
                   /\ cyc[c].i = PlanEnd]_vars

\* C27 witness: a cycle whose critical input reads all failed has published a
\* snapshot with an empty input map and with its holding register.
C27_Witness ==
    /\ data # None
    /\ last_update_success
    /\ data.input_registers = <<>>
    /\ data.holding_registers # <<>>

----------------------------------------------------------------------------
(* Boost activations of any duration, zero and negative included           *)

AnyDurations == {-1, 0, 1}

NextBoostAny ==
    \/ TimerFire
    \/ \E c \in Cycles : CycleStep(c) \/ ReadError(c)
    \/ ClockAdvance
    \/ WcTick
    \/ \E duration_minutes \in AnyDurations : activate_boost_mode(duration_minutes)
    \/ deactivate_boost_mode

SpecBoostAny == InitBoost /\ [][NextBoostAny]_vars

\* C28: when activate_boost_mode has returned True, boost_active is true and
\* active_curve is "secondary" at its return, for every duration_minutes,
\* zero and negative included.
C28_ActivatedOnReturn ==
    (evaluated.fn = "activate" /\ evaluated.returned = "True")
      => wc.boost_active /\ wc.active_curve = "secondary"

\* C29: between controller calls, a last_flow_temp that is set is the curve
\* now selected (the boost curve when boost_active, else the primary curve)
\* applied to last_outdoor_temp.
C29_LastFlowMatchesSelectedCurve ==
    \A flow \in wc.last_flow_temp :
        \E outdoor_temp \in wc.last_outdoor_temp :
            flow = calculate_target_flow_temperature(wc, outdoor_temp)

\* C30: between controller calls boost_active holds exactly when active_curve
\* is "secondary" and exactly when boost_end_time is set, and only with a
\* boost curve configured.
C30_BoostFieldsAgree ==
    /\ wc.boost_active <=> wc.active_curve = "secondary"
    /\ wc.boost_active <=> wc.boost_end_time # {}
    /\ wc.boost_active => wc.secondary_curve

\* C30 witness: an activation has returned True and boost is active with the
\* boost curve and an end time.
C30_Witness ==
    /\ evaluated = Called("activate", FALSE, "True")
    /\ wc.boost_active
    /\ wc.active_curve = "secondary"
    /\ wc.boost_end_time # {}
    /\ wc.last_flow_temp # {}

====
